---- MODULE Spec2Model ----
(***************************************************************************)
(* Model of the SAR social stories script engine:                          *)
(*   ss_script_parser   (one-shot line source over a script file),         *)
(*   ss_script_handler  (iterate_once, wait_for_response, load_next_story),*)
(*   ss_game_node       (launch_game: the driver loop and its queue).      *)
(*                                                                         *)
(* Conventions.                                                            *)
(*  - Text is a sequence of one-character strings, so that Python's        *)
(*    `x in y` on strings is substring containment (In).                   *)
(*  - A Python value is a record [tag, n, s]: tag "unset" (the attribute   *)
(*    was never assigned), "int", "str" (a script field, never converted)  *)
(*    or "td" (a timedelta of n time units).                               *)
(*  - An exception that leaves iterate_once is the step result "error"     *)
(*    (anything but StopIteration) or "stop" (StopIteration).  Reading an  *)
(*    attribute that was never assigned raises AttributeError, which an    *)
(*    `except NameError` clause does not catch.                            *)
(*  - Python 2 ordering of mixed types: every int is smaller than every    *)
(*    str.                                                                 *)
(***************************************************************************)
EXTENDS Integers, Sequences, FiniteSets, TLC

\* ------------------------------------------------------------------ bounds
MaxQueue == 2
MaxElapsed == 2
MaxStoriesTold == 2
MaxAttempts == 2

\* -------------------------------------------------------------------- text
In(sub, s) ==
    \E i \in 0..(Len(s) - Len(sub)) : SubSeq(s, i + 1, i + Len(sub)) = sub

kSTORY == <<"S","T","O","R","Y">>
kROBOT == <<"R","O","B","O","T">>
kOPAL == <<"O","P","A","L">>
kADD == <<"A","D","D">>
kSET == <<"S","E","T">>
kWAIT == <<"W","A","I","T">>
kREPEAT == <<"R","E","P","E","A","T">>
kDO == <<"D","O">>
kCLEAR == <<"C","L","E","A","R">>
kSTORY_INTRO == kSTORY \o <<"_","I","N","T","R","O">>
kSTORY_CLOSING == kSTORY \o <<"_","C","L","O","S","I","N","G">>
kLOAD_ALL == <<"L","O","A","D","_","A","L","L">>
kLOAD_STORY == <<"L","O","A","D","_">> \o kSTORY
kCORRECT == <<"C","O","R","R","E","C","T">>
kINCORRECT == <<"I","N">> \o kCORRECT
kYES == <<"Y","E","S">>
kNO == <<"N","O">>
kYES_NO == kYES \o <<"_">> \o kNO
kTIMEOUT == <<"T","I","M","E","O","U","T">>
kRESPONSES == <<"_","R","E","S","P","O","N","S","E","S">>
kCORRECT_RESPONSES == kCORRECT \o kRESPONSES
kINCORRECT_RESPONSES == kINCORRECT \o kRESPONSES
kYES_RESPONSES == kYES \o kRESPONSES
kNO_RESPONSES == kNO \o kRESPONSES
kANSWER_FEEDBACK == <<"A","N","S","W","E","R","_","F","E","E","D","B","A","C","K">>
kSTORY_INTROS == kSTORY_INTRO \o <<"S">>
kSTORY_CLOSINGS == kSTORY_CLOSING \o <<"S">>
kTIMEOUT_CLOSINGS == kTIMEOUT \o <<"_","C","L","O","S","I","N","G","S">>
kMAX == <<"M","A","X","_">>
kMAX_STORIES == kMAX \o <<"S","T","O","R","I","E","S">>
kMAX_STORIES_REACHED == kMAX_STORIES \o <<"_","R","E","A","C","H","E","D">>
kMAX_GAME_TIME == kMAX \o <<"G","A","M","E","_","T","I","M","E">>
kMAX_INCORRECT_RESPONSES == kMAX \o kINCORRECT_RESPONSES
kSTART == <<"S","T","A","R","T">>
kPAUSE == <<"P","A","U","S","E">>
kCONTINUE == <<"C","O","N","T","I","N","U","E">>
kEND == <<"E","N","D">>

\* ------------------------------------------------------------------ values
Unset == [tag |-> "unset", n |-> 0, s |-> <<>>]
IntV(k) == [tag |-> "int", n |-> k, s |-> <<>>]
StrV(t) == [tag |-> "str", n |-> 0, s |-> t]
TdV(k) == [tag |-> "td", n |-> k, s |-> <<>>]

\* Python 2 `a >= b` for a, b each an int or a str: numbers by value, and an
\* int is smaller than any str.  (str against str is not needed by the code.)
GeqPy2(a, b) ==
    CASE a.tag = "int" /\ b.tag = "int" -> a.n >= b.n
      [] a.tag = "int" /\ b.tag = "str" -> FALSE
      [] a.tag = "str" /\ b.tag = "int" -> TRUE
      [] OTHER -> FALSE

\* -------------------------------------------------------------------- disk
VARIABLE cwd    \* the directory the game node was started in

\* File names (Text).
fDemo == <<"d">>
fSession1 == <<"s","1">>
fSession2 == <<"s","2">>
fGeneral == <<"s","g">>
fRepRobot == <<"r","r">>
fRepStory == <<"r","s">>
fRepOnlyStory == <<"r","o">>
fRepNested == <<"r","n">>
fMissing == <<"n","o">>
fStoryA == <<"a">>
fStoryB == <<"b">>
fPool == <<"p">>
tHi == <<"h","i">>
tTwo == <<"2">>

Dirs == {"A", "B", "C", "D"}

\* The session script is opened by its bare name, a sub-script as
\* "../session_scripts/" + name; both are relative to cwd.
MainPath(name) == <<cwd>> \o name
SubPath(name) == <<cwd, "/">> \o name

\* A script line is the list of its tab-separated fields (line.split("\t")
\* always gives at least one field).  The session scripts of each directory:
MainScripts ==
    (<<"A">> \o fDemo :> << <<kROBOT, kDO, tHi>>,
                            <<kOPAL, kCLEAR>>,
                            <<kSET, kMAX_STORIES, tTwo>>,
                            <<kSET, kMAX_INCORRECT_RESPONSES, tTwo>>,
                            <<kREPEAT, tTwo, fMissing>>,
                            <<kSTORY, tHi>>,
                            <<tHi>>,
                            <<kADD, tHi, fPool>>,
                            <<kADD, kYES_RESPONSES>>,
                            <<kSET, kMAX_STORIES>>,
                            <<kWAIT, kYES_NO>>,
                            <<kREPEAT, tTwo>>,
                            <<kROBOT, kDO>> >>)
 @@ (<<"A">> \o fSession1 :> << <<kSET, kMAX_GAME_TIME, tTwo>>,
                                <<kSET, kMAX_STORIES, tTwo>>,
                                <<kREPEAT, tTwo, fRepStory>>,
                                <<kROBOT, kDO, tHi>> >>)
 @@ (<<"A">> \o fGeneral :> << <<kROBOT, kDO, tHi>>,
                               <<kSET, kMAX_STORIES, tTwo>>,
                               <<kREPEAT, kMAX_STORIES, fRepStory>>,
                               <<kROBOT, kDO, tHi>>,
                               <<kOPAL, kLOAD_STORY>>,
                               <<kSTORY>> >>)
 @@ (<<"B">> \o fDemo :> << <<kREPEAT, tTwo, fRepRobot>>,
                            <<kROBOT, kDO, tHi>> >>)
 @@ (<<"B">> \o fSession1 :> << <<kROBOT, kDO, tHi>>, <<kSTORY>>,
                                <<kROBOT, kDO, tHi>> >>)
 @@ (<<"B">> \o fSession2 :> << <<kSET, kMAX_INCORRECT_RESPONSES, tTwo>>,
                                <<kWAIT, kYES_NO, tTwo>>,
                                <<kROBOT, kDO, tHi>> >>)
 @@ (<<"B">> \o fGeneral :> << <<kADD, kCORRECT_RESPONSES, fPool>>,
                               <<kROBOT, kDO, tHi>> >>)
 @@ (<<"C">> \o fDemo :> << <<kOPAL, kLOAD_ALL, fPool>> >>)
 @@ (<<"C">> \o fSession1 :> << <<kROBOT, kSTORY_INTRO>> >>)
 @@ (<<"C">> \o fSession2 :> << <<kREPEAT, kMAX_STORIES, fRepRobot>> >>)
 @@ (<<"C">> \o fGeneral :> << <<kOPAL, kLOAD_STORY>>, <<kSTORY>> >>)
 @@ (<<"D">> \o fDemo :> << <<kSET, kMAX_STORIES, tTwo>>,
                            <<kREPEAT, tTwo, fRepOnlyStory>>,
                            <<kROBOT, kDO, tHi>> >>)

\* The sub-scripts, the same in every directory.
SubScripts ==
    (fRepRobot :> << <<kROBOT, kDO, tHi>>, <<kOPAL, kCLEAR, tHi>> >>)
 @@ (fRepStory :> << <<kOPAL, kLOAD_STORY>>, <<kSTORY>> >>)
 @@ (fRepOnlyStory :> << <<kSTORY>> >>)
 @@ (fRepNested :> << <<kREPEAT, tTwo, fRepRobot>>,
                      <<kREPEAT, tTwo, fMissing>>,
                      <<kROBOT, kDO, tHi>> >>)
 @@ (fStoryA :> << <<kROBOT, kDO, tHi>>, <<kWAIT, kCORRECT, tTwo>> >>)
 @@ (fStoryB :> << <<kOPAL, kCLEAR>> >>)

Exists(path) ==
    \/ path \in DOMAIN MainScripts
    \/ Len(path) > 2 /\ path[2] = "/"
         /\ SubSeq(path, 3, Len(path)) \in DOMAIN SubScripts

Disk(path) ==
    IF path \in DOMAIN MainScripts THEN MainScripts[path]
    ELSE SubScripts[SubSeq(path, 3, Len(path))]

\* ------------------------------------------------------------------ parser
\* ss_script_parser: _fh missing until load_script succeeds.
NewParser == [loaded |-> FALSE, name |-> <<>>, pos |-> 0, closed |-> FALSE]

\* load_script(script): open(script, "r"); IOError when it cannot be opened.
load_script(p, script) ==
    IF Exists(script)
    THEN [exc |-> "-", p |-> [loaded |-> TRUE, name |-> script, pos |-> 0,
                              closed |-> FALSE]]
    ELSE [exc |-> "IOError", p |-> p]

\* A variant of next_line that loses a line: the cursor moves past two.
next_line_SkipsLine(p) ==
    IF ~p.loaded THEN [exc |-> "AttributeError", line |-> <<>>, p |-> p]
    ELSE IF p.closed THEN [exc |-> "ValueError", line |-> <<>>, p |-> p]
    ELSE IF p.pos < Len(Disk(p.name))
         THEN [exc |-> "-", line |-> Disk(p.name)[p.pos + 1],
               p |-> [p EXCEPT !.pos = p.pos + 2]]
         ELSE [exc |-> "StopIteration", line |-> <<>>,
               p |-> [p EXCEPT !.closed = TRUE]]

\* next_line(): self._fh.next(); on StopIteration the file is closed and the
\* exception passed on; a closed file raises ValueError, no file AttributeError.
next_line(p) ==
    IF ~p.loaded THEN [exc |-> "AttributeError", line |-> <<>>, p |-> p]
    ELSE IF p.closed THEN [exc |-> "ValueError", line |-> <<>>, p |-> p]
    ELSE IF p.pos < Len(Disk(p.name))
         THEN [exc |-> "-", line |-> Disk(p.name)[p.pos + 1],
               p |-> [p EXCEPT !.pos = p.pos + 1]]
         ELSE [exc |-> "StopIteration", line |-> <<>>,
               p |-> [p EXCEPT !.closed = TRUE]]

\* get_session_script(session), for an int session >= -1.
get_session_script(session) ==
    IF session <= 0 THEN fDemo
    ELSE IF session < 3 THEN IF session = 1 THEN fSession1 ELSE fSession2
    ELSE fGeneral

\* ----------------------------------------------------------------- handler
PoolNames == {"correct_responses", "incorrect_responses", "yes_responses",
              "no_responses", "answer_feedback", "story_intros",
              "story_closings", "timeout_closings", "max_stories_reached"}

\* A response pool attribute: never assigned, or a list of entries.
NoPool == [set |-> FALSE, items |-> <<>>]
PoolOf(items) == [set |-> TRUE, items |-> items]

\* One command sent through ros_node.
Emit(dev, cmd, arg, idx) ==
    [dev |-> dev, cmd |-> cmd, arg |-> arg, idx |-> idx, correctSlot |-> 0,
     draggable |-> FALSE]

\* The outcome of a piece of handler code: the handler after it, the commands
\* it sent, and how it ended ("ok", or the exception that left it).
Done(h, out) == [h |-> h, out |-> out, exc |-> "-"]
Raise(h, out, exc) == [h |-> h, out |-> out, exc |-> exc]

\* self.<name>[randint(0, len(self.<lenOf>) - 1)]: the set of outcomes, each
\* an entry index or an exception.  randint(0, -1) raises ValueError.
PickFrom(h, name, lenOf) ==
    IF ~h.pools[name].set \/ ~h.pools[lenOf].set
    THEN {[exc |-> "AttributeError", idx |-> 0]}
    ELSE IF Len(h.pools[lenOf].items) = 0
    THEN {[exc |-> "ValueError", idx |-> 0]}
    ELSE {[exc |-> IF i < Len(h.pools[name].items) THEN "-" ELSE "IndexError",
           idx |-> i] : i \in 0..(Len(h.pools[lenOf].items) - 1)}

\* try: send_robot_command("DO", self.<name>[randint(...)])
\* except <caught>: log.   The command is sent only when the pick succeeds.
SayFrom(h, out, name, lenOf, caught) ==
    {IF r.exc = "-"
     THEN Done(h, Append(out, Emit("robot", "DO", name, r.idx)))
     ELSE IF r.exc \in caught THEN Done(h, out)
     ELSE Raise(h, out, r.exc) : r \in PickFrom(h, name, lenOf)}

\* What personalization_manager.get_next_story() may return.
Stories ==
    {[script |-> fStoryA, scenes |-> <<"s1", "s2">>, in_order |-> TRUE,
      num_answers |-> 1],
     [script |-> fStoryB, scenes |-> <<"s1", "s2", "s1">>, in_order |-> FALSE,
      num_answers |-> 2],
     [script |-> fMissing, scenes |-> <<"s1">>, in_order |-> FALSE,
      num_answers |-> 1]}

\* scenes.index(scene): the first position holding scene (0-based).
IndexOf(scenes, scene) ==
    (CHOOSE i \in 1..Len(scenes) :
        scenes[i] = scene /\ \A j \in 1..(i - 1) : scenes[j] # scene) - 1

\* The LOAD_OBJECT command of one scene (lines 455-463).
LoadObject(scenes, in_order, k) ==
    [dev |-> "opal", cmd |-> "LOAD_OBJECT", arg |-> scenes[k],
     idx |-> IndexOf(scenes, scenes[k]) + 1,
     correctSlot |-> IF ~in_order THEN IndexOf(scenes, scenes[k]) + 1 ELSE 0,
     draggable |-> IF in_order THEN FALSE ELSE TRUE]

\* The budget test of load_next_story (lines 420-421), as "T", "F" or the
\* exception its evaluation raises.  `or` evaluates its right side only when
\* the left is false.
BudgetGate(h, elapsed) ==
    IF h.max_stories.tag = "unset" THEN "AttributeError"
    ELSE IF GeqPy2(IntV(h.stories_told), h.max_stories) THEN "T"
    ELSE IF h.max_game_time.tag = "unset" THEN "AttributeError"
    ELSE IF elapsed >= h.max_game_time.n THEN "T" ELSE "F"

\* A variant of load_next_story that counts the story when it is loaded.
load_next_story_CountsAtLoad(h, out, elapsed) ==
    LET gate == BudgetGate(h, elapsed) IN
    IF gate \notin {"T", "F"} THEN {Raise(h, out, gate)}
    ELSE IF gate = "T"
    THEN LET h1 == [h EXCEPT !.doing_story = FALSE] IN
         {IF r.exc = "-" THEN Done([r.h EXCEPT !.repeating = FALSE], r.out)
          ELSE r :
            r \in SayFrom(h1, out, "max_stories_reached", "no_responses",
                          {"NameError"})}
    ELSE {Done([h EXCEPT !.story_script = StrV(st.script),
                       !.stories_told = h.stories_told + 1],
               out \o << [dev |-> "opal", cmd |-> "SETUP_STORY_SCENE",
                          arg |-> IF st.in_order THEN "inOrder" ELSE "free",
                          idx |-> Len(st.scenes), correctSlot |-> st.num_answers,
                          draggable |-> FALSE] >>
                   \o [k \in 1..Len(st.scenes) |->
                         LoadObject(st.scenes, st.in_order, k)]) :
            st \in Stories}

\* load_next_story (lines 412-463).
load_next_story(h, out, elapsed) ==
    LET gate == BudgetGate(h, elapsed) IN
    IF gate \notin {"T", "F"} THEN {Raise(h, out, gate)}
    ELSE IF gate = "T"
    THEN LET h1 == [h EXCEPT !.doing_story = FALSE] IN
         {IF r.exc = "-" THEN Done([r.h EXCEPT !.repeating = FALSE], r.out)
          ELSE r :
            r \in SayFrom(h1, out, "max_stories_reached", "no_responses",
                          {"NameError"})}
    ELSE {Done([h EXCEPT !.story_script = StrV(st.script)],
               out \o << [dev |-> "opal", cmd |-> "SETUP_STORY_SCENE",
                          arg |-> IF st.in_order THEN "inOrder" ELSE "free",
                          idx |-> Len(st.scenes), correctSlot |-> st.num_answers,
                          draggable |-> FALSE] >>
                   \o [k \in 1..Len(st.scenes) |->
                         LoadObject(st.scenes, st.in_order, k)]) :
            st \in Stories}

\* read_list_from_file(filename): `open(script, "r")` names a variable that
\* does not exist, so the call raises NameError before any file is opened;
\* its `except IOError` does not catch that.
read_list_from_file(filename) == [exc |-> "NameError", items |-> <<>>]

\* datetime.timedelta(seconds=v): a number is required.
timedelta(v) ==
    IF v.tag = "int" THEN [exc |-> "-", td |-> TdV(v.n)]
    ELSE [exc |-> "TypeError", td |-> Unset]

\* The pool an ADD line assigns: the first test of the if/elif chain
\* (lines 190-216) that elements[1] passes, or "none".
AddTarget(f) ==
    IF In(kCORRECT_RESPONSES, f) THEN "correct_responses"
    ELSE IF In(kINCORRECT_RESPONSES, f) THEN "incorrect_responses"
    ELSE IF In(kYES_RESPONSES, f) THEN "yes_responses"
    ELSE IF In(kNO_RESPONSES, f) THEN "no_responses"
    ELSE IF In(kANSWER_FEEDBACK, f) THEN "answer_feedback"
    ELSE IF In(kSTORY_INTROS, f) THEN "story_intros"
    ELSE IF In(kSTORY_CLOSINGS, f) THEN "story_closings"
    ELSE IF In(kTIMEOUT_CLOSINGS, f) THEN "timeout_closings"
    ELSE IF In(kMAX_STORIES_REACHED, f) THEN "max_stories_reached"
    ELSE "none"

\* STORY line (lines 114-132).
DoStory(h, out) ==
    LET h1 == [h EXCEPT !.doing_story = TRUE, !.story_parser = NewParser] IN
    IF h.story_script.tag = "unset" THEN {Raise(h1, out, "AttributeError")}
    ELSE LET r == load_script(NewParser, SubPath(h.story_script.s)) IN
         IF r.exc = "IOError"
         THEN {Done([h1 EXCEPT !.doing_story = FALSE], out)}
         ELSE {Done([h1 EXCEPT !.story_parser = r.p], out)}

\* ROBOT line (lines 137-155).
DoRobot(h, out, e) ==
    IF In(kSTORY_INTRO, e[2])
    THEN SayFrom(h, out, "story_intros", "story_intros", {})
    ELSE IF In(kSTORY_CLOSING, e[2])
    THEN SayFrom(h, out, "story_closings", "story_closings", {})
    ELSE {Done(h, Append(out, Emit("robot", "FIELD", "literal", Len(e))))}

\* OPAL line (lines 159-179).
DoOpal(h, out, e, elapsed) ==
    IF In(kLOAD_ALL, e[2]) /\ Len(e) >= 3
    THEN {Raise(h, out, "NameError")}
    ELSE IF In(kLOAD_STORY, e[2]) THEN load_next_story(h, out, elapsed)
    ELSE {Done(h, Append(out, Emit("opal", "FIELD", "literal", Len(e))))}

\* ADD line (lines 186-220).
DoAdd(h, out, e) ==
    LET pool == AddTarget(e[2]) IN
    IF pool = "none" THEN {Done(h, out)}
    ELSE LET r == read_list_from_file(e[3]) IN
         IF r.exc = "-"
         THEN {Done([h EXCEPT !.pools[pool] = PoolOf(r.items)], out)}
         ELSE IF r.exc = "IOError" THEN {Done(h, out)}
         ELSE {Raise(h, out, r.exc)}

\* SET line (lines 224-234): the field is stored as read, a str.
DoSet(h, out, e) ==
    IF In(kMAX_INCORRECT_RESPONSES, e[2])
    THEN {Done([h EXCEPT !.max_incorrect_responses = StrV(e[3])], out)}
    ELSE IF In(kMAX_GAME_TIME, e[2])
    THEN LET r == timedelta(StrV(e[3])) IN
         IF r.exc = "-" THEN {Done([h EXCEPT !.max_game_time = r.td], out)}
         ELSE {Raise(h, out, r.exc)}
    ELSE IF In(kMAX_STORIES, e[2])
    THEN {Done([h EXCEPT !.max_stories = StrV(e[3])], out)}
    ELSE {Done(h, out)}

\* WAIT line (line 240): `wait_for_response(...)` is called as a global
\* function, which does not exist.
DoWait(h, out, e) == {Raise(h, out, "NameError")}

\* A variant of the REPEAT line that keeps the repeat script being read when
\* a REPEAT context is already active.
DoRepeat_KeepsOuter(h, out, e) ==
    IF h.repeating THEN {Done(h, out)}
    ELSE LET h1 == [h EXCEPT !.repeating = TRUE, !.repetitions = IntV(0),
                             !.repeat_parser = NewParser]
             r == load_script(NewParser, SubPath(e[3]))
         IN  IF r.exc = "IOError"
             THEN {Done([h1 EXCEPT !.repeating = FALSE], out)}
             ELSE {Done([h1 EXCEPT !.repeat_parser = r.p], out)}

\* REPEAT line (lines 245-272).  The `else` at line 269 belongs to the `try`:
\* it runs when reading self.max_stories raised nothing.
DoRepeat(h, out, e) ==
    LET h1 == [h EXCEPT !.repeating = TRUE, !.repetitions = IntV(0),
                        !.repeat_parser = NewParser]
        r == load_script(NewParser, SubPath(e[3]))
    IN  IF r.exc = "IOError"
        THEN {Done([h1 EXCEPT !.repeating = FALSE], out)}
        ELSE LET h2 == [h1 EXCEPT !.repeat_parser = r.p] IN
             IF In(kMAX_STORIES, e[2])
             THEN IF h2.max_stories.tag = "unset"
                  THEN {Raise(h2, out, "AttributeError")}
                  ELSE {Done([h2 EXCEPT !.max_repetitions = StrV(e[2])], out)}
             ELSE {Done(h2, out)}

\* A variant of the opcode chain that takes every one-field line for STORY.
Dispatch_OneFieldIsStory(h, out, e, elapsed) ==
    IF Len(e) < 1 THEN {Done(h, out)}
    ELSE IF Len(e) = 1 THEN DoStory(h, out)
    ELSE IF In(kROBOT, e[1]) THEN DoRobot(h, out, e)
    ELSE IF In(kOPAL, e[1]) THEN DoOpal(h, out, e, elapsed)
    ELSE IF In(kADD, e[1]) /\ Len(e) >= 3 THEN DoAdd(h, out, e)
    ELSE IF In(kSET, e[1]) /\ Len(e) >= 3 THEN DoSet(h, out, e)
    ELSE IF In(kWAIT, e[1]) /\ Len(e) >= 3 THEN DoWait(h, out, e)
    ELSE IF In(kREPEAT, e[1]) /\ Len(e) >= 3 THEN DoRepeat(h, out, e)
    ELSE {Done(h, out)}

\* The opcode chain of iterate_once (lines 103-272) for one line.
Dispatch(h, out, e, elapsed) ==
    IF Len(e) < 1 THEN {Done(h, out)}
    ELSE IF Len(e) = 1
    THEN IF In(kSTORY, e[1]) THEN DoStory(h, out) ELSE {Done(h, out)}
    ELSE IF In(kROBOT, e[1]) THEN DoRobot(h, out, e)
    ELSE IF In(kOPAL, e[1]) THEN DoOpal(h, out, e, elapsed)
    ELSE IF In(kADD, e[1]) /\ Len(e) >= 3 THEN DoAdd(h, out, e)
    ELSE IF In(kSET, e[1]) /\ Len(e) >= 3 THEN DoSet(h, out, e)
    ELSE IF In(kWAIT, e[1]) /\ Len(e) >= 3 THEN DoWait(h, out, e)
    ELSE IF In(kREPEAT, e[1]) /\ Len(e) >= 3 THEN DoRepeat(h, out, e)
    ELSE {Done(h, out)}

\* The line reaches load_next_story (lines 111, 137, 159-171).
IsLoadStory(e) ==
    /\ Len(e) >= 2 /\ ~In(kROBOT, e[1]) /\ In(kOPAL, e[1])
    /\ ~(In(kLOAD_ALL, e[2]) /\ Len(e) >= 3)
    /\ In(kLOAD_STORY, e[2])

\* A variant of the line selection that tests the flags in the wrong order.
Source_RepeatFirst(h) ==
    IF h.repeating THEN "repeat" ELSE IF h.doing_story THEN "story" ELSE "main"

\* The context iterate_once reads from (lines 87-94).
Source(h) ==
    IF h.doing_story THEN "story" ELSE IF h.repeating THEN "repeat" ELSE "main"

ParserOf(h, src) ==
    IF src = "story" THEN h.story_parser
    ELSE IF src = "repeat" THEN h.repeat_parser ELSE h.script_parser

WithParser(h, src, p) ==
    IF src = "story" THEN [h EXCEPT !.story_parser = p]
    ELSE IF src = "repeat" THEN [h EXCEPT !.repeat_parser = p]
    ELSE [h EXCEPT !.script_parser = p]

\* "Finished repetition " + self.repetitions + "!" (line 284): str + int
\* raises TypeError; a missing attribute AttributeError.
FinishedRepetitionLog(h) ==
    IF h.repetitions.tag = "unset" THEN "AttributeError"
    ELSE IF h.repetitions.tag = "str" THEN "-" ELSE "TypeError"

\* The test of lines 289-291 after the increment, as "T", "F" or an exception.
RepeatOver(h, elapsed) ==
    IF h.max_repetitions.tag = "unset" THEN "AttributeError"
    ELSE IF GeqPy2(h.repetitions, h.max_repetitions) THEN "T"
    ELSE IF h.max_game_time.tag = "unset" THEN "AttributeError"
    ELSE IF elapsed >= h.max_game_time.n THEN "T" ELSE "F"

\* Variants of the StopIteration handler with one plausible slip each, used
\* to show that the properties below depend on it.
OnStopIteration_StoryNotCounted(h, elapsed) ==
    IF h.doing_story
    THEN Done([h EXCEPT !.doing_story = FALSE], <<>>)
    ELSE IF h.repeating
    THEN Raise(h, <<>>, FinishedRepetitionLog(h))
    ELSE Raise(h, <<>>, "StopIteration")

OnStopIteration_MainEndSwallowed(h, elapsed) ==
    IF h.doing_story
    THEN Done([h EXCEPT !.doing_story = FALSE,
                        !.stories_told = h.stories_told + 1], <<>>)
    ELSE IF h.repeating
    THEN Raise(h, <<>>, FinishedRepetitionLog(h))
    ELSE Done(h, <<>>)

\* The StopIteration handler (lines 276-297).  An exception raised inside it
\* leaves iterate_once directly.
OnStopIteration(h, elapsed) ==
    IF h.doing_story
    THEN Done([h EXCEPT !.doing_story = FALSE,
                        !.stories_told = h.stories_told + 1], <<>>)
    ELSE IF h.repeating
    THEN IF FinishedRepetitionLog(h) # "-"
         THEN Raise(h, <<>>, FinishedRepetitionLog(h))
         ELSE LET h1 == [h EXCEPT !.repetitions =
                            [h.repetitions EXCEPT !.n = h.repetitions.n + 1]]
                  over == RepeatOver(h1, elapsed)
              IN  IF over = "T" THEN Done([h1 EXCEPT !.repeating = FALSE], <<>>)
                  ELSE IF over = "F" THEN Done(h1, <<>>)
                  ELSE Raise(h1, <<>>, over)
    ELSE Raise(h, <<>>, "StopIteration")

\* A variant of iterate_once whose last handler logs the failure and returns.
iterate_once_SwallowsFailure(h, elapsed) ==
    LET src == Source(h)
        r == next_line(ParserOf(h, src))
        h1 == WithParser(h, src, r.p)
        outs == IF r.exc = "-" THEN Dispatch(h1, <<>>, r.line, elapsed)
                ELSE IF r.exc = "StopIteration"
                THEN {OnStopIteration(h1, elapsed)}
                ELSE {Raise(h1, <<>>, r.exc)}
    IN  {[h |-> o.h, out |-> o.out,
          exc |-> IF o.exc = "StopIteration" THEN o.exc ELSE "-",
          src |-> src, eof |-> (r.exc = "StopIteration"), line |-> r.line] :
            o \in outs}

\* iterate_once (lines 79-304): the set of its outcomes, each with the
\* context it read from.
iterate_once(h, elapsed) ==
    LET src == Source(h)
        r == next_line(ParserOf(h, src))
        h1 == WithParser(h, src, r.p)
        outs == IF r.exc = "-" THEN Dispatch(h1, <<>>, r.line, elapsed)
                ELSE IF r.exc = "StopIteration"
                THEN {OnStopIteration(h1, elapsed)}
                ELSE {Raise(h1, <<>>, r.exc)}
    IN  {[h |-> o.h, out |-> o.out, exc |-> o.exc, src |-> src,
          eof |-> (r.exc = "StopIteration"), line |-> r.line] : o \in outs}

\* ------------------------------------------------------- wait_for_response
WaitKinds == {kCORRECT, kYES_NO}
Responses == {kCORRECT, kINCORRECT, kYES, kNO, kTIMEOUT}

\* range(0, self.max_incorrect_responses) (line 327): the number of
\* iterations, or the exception its evaluation raises.
AttemptRange(h) ==
    IF h.max_incorrect_responses.tag = "unset"
    THEN [exc |-> "AttributeError", n |-> 0]
    ELSE IF h.max_incorrect_responses.tag # "int"
    THEN [exc |-> "TypeError", n |-> 0]
    ELSE [exc |-> "-", n |-> h.max_incorrect_responses.n]

\* The branch of the loop body taken for a response (lines 338-378).
Classify(response, response_to_get) ==
    IF In(kCORRECT, response) THEN "correct"
    ELSE IF In(kYES, response) THEN "yes"
    ELSE IF In(kINCORRECT, response)
            \/ (In(kTIMEOUT, response) /\ In(kCORRECT, response_to_get))
    THEN "incorrect"
    ELSE IF In(kNO, response)
            \/ (In(kTIMEOUT, response) /\ In(kYES_NO, response_to_get))
    THEN "no"
    ELSE "none"

\* A variant of the loop body whose YES branch lacks the `break`.
WaitBody_YesGoesOn(h, out, response, response_to_get) ==
    LET c == Classify(response, response_to_get)
        pool == CASE c = "correct" -> "correct_responses"
                  [] c = "yes" -> "yes_responses"
                  [] c = "incorrect" -> "incorrect_responses"
                  [] OTHER -> "no_responses"
    IN  IF c = "none"
        THEN {[h |-> h, out |-> out, exc |-> "-", brk |-> FALSE]}
        ELSE {[h |-> r.h, out |-> r.out, exc |-> r.exc,
               brk |-> (r.exc = "-" /\ c \in {"correct"})] :
                r \in SayFrom(h, out, pool, pool, {"NameError"})}

\* One iteration of the loop (lines 328-385) after the response arrived:
\* outcomes with brk = TRUE when the loop is left by `break`.
WaitBody(h, out, response, response_to_get) ==
    LET c == Classify(response, response_to_get)
        pool == CASE c = "correct" -> "correct_responses"
                  [] c = "yes" -> "yes_responses"
                  [] c = "incorrect" -> "incorrect_responses"
                  [] OTHER -> "no_responses"
    IN  IF c = "none"
        THEN {[h |-> h, out |-> out, exc |-> "-", brk |-> FALSE]}
        ELSE {[h |-> r.h, out |-> r.out, exc |-> r.exc,
               brk |-> (r.exc = "-" /\ c \in {"correct", "yes"})] :
                r \in SayFrom(h, out, pool, pool, {"NameError"})}

\* The `else` of the for loop (lines 389-409): all attempts were used.
WaitElse(h, out, response_to_get) ==
    IF In(kCORRECT, response_to_get)
    THEN LET shown == Append(out, Emit("opal", "SHOW_CORRECT", "-", 0)) IN
         {IF r.exc = "-"
          THEN Done(h, shown \o <<Emit("robot", "DO", "answer_feedback", r.idx),
                                  Emit("opal", "HIDE_CORRECT", "-", 0)>>)
          ELSE IF r.exc \in {"NameError"} THEN Done(h, shown)
          ELSE Raise(h, shown, r.exc) :
            r \in PickFrom(h, "answer_feedback", "answer_feedback")}
    ELSE IF In(kYES, response_to_get)
    THEN {Done([h EXCEPT !.repeating = FALSE, !.story = "False"], out)}
    ELSE {Done(h, out)}

\* ------------------------------------------------------------------- state
VARIABLES
    h,          \* the ss_script_handler object
    elapsed,    \* datetime.now() - start_time, in time units
    drv,        \* launch_game: started, paused, where the loop stands, and
                \* whether an END message was acted on
    queue,      \* self.queue: control messages not yet polled
    game,       \* send_game_state: how often START and END were announced
    out,        \* commands sent during the latest step or wait
    w,          \* the wait_for_response call in progress
    last,       \* the latest iterate_once: context read, end of file, result,
                \* the context the step before it exhausted, if it did, the
                \* line read and, for a story load, what the budget test gave
    starts      \* how many times a STORY line started a story

vars == <<cwd, h, elapsed, drv, queue, game, out, w, last, starts>>

Sessions == {-1, 0, 1, 2, 3}

\* The flags of a handler no line has touched: no STORY or REPEAT context.
NoContext == [doing_story |-> FALSE, repeating |-> FALSE]

\* ss_script_handler.__init__ (lines 42-76), given the opened session script.
NewHandler(p) ==
    [doing_story |-> NoContext.doing_story,
     repeating |-> NoContext.repeating,
     story |-> "unset",
     stories_told |-> 0,
     repetitions |-> Unset,
     max_repetitions |-> Unset,
     max_stories |-> Unset,
     max_game_time |-> Unset,
     max_incorrect_responses |-> Unset,
     story_script |-> Unset,
     script_parser |-> p,
     story_parser |-> NewParser,
     repeat_parser |-> NewParser,
     pools |-> [n \in PoolNames |-> NoPool]]

NoWait == [active |-> FALSE, kind |-> <<>>, i |-> 0, n |-> 0, calls |-> 0,
           result |-> "-", resp |-> <<>>,
           ctx0 |-> [doing_story |-> FALSE, repeating |-> FALSE]]
NoStep == [src |-> "none", eof |-> FALSE, exc |-> "-", before |-> "none",
           line |-> <<>>, gate |-> "-"]

\* launch_game up to the loop (lines 182-201): without the session script
\* the game is not launched.
Init ==
    /\ cwd \in Dirs
    /\ \E session \in Sessions :
        LET r == load_script(NewParser, MainPath(get_session_script(session))) IN
        /\ h = NewHandler(r.p)
        /\ drv = [started |-> FALSE, paused |-> FALSE, ended |-> FALSE,
                  status |-> IF r.exc = "-" THEN "running" ELSE "noscript"]
        /\ elapsed = 0
        /\ queue = <<>>
        /\ game = [start |-> 0, end |-> 0]
        /\ out = <<>>
        /\ w = NoWait
        /\ last = NoStep
        /\ starts = 0

\* ---------------------------------------------------------------- actions
Messages == {kSTART, kPAUSE, kCONTINUE, kEND}

\* The event producer puts a control message on the queue.
Enqueue(msg) ==
    /\ Len(queue) < MaxQueue
    /\ queue' = Append(queue, msg)
    /\ UNCHANGED <<cwd, h, elapsed, drv, game, out, w, last, starts>>

\* Time passes.
Clock ==
    /\ elapsed < MaxElapsed
    /\ elapsed' = elapsed + 1
    /\ UNCHANGED <<cwd, h, drv, queue, game, out, w, last, starts>>

\* set_end_game(): stop the story and the repeating script.
set_end_game(hh) == [hh EXCEPT !.doing_story = FALSE, !.repeating = FALSE]

\* A variant of the message handling in which START also resumes a paused
\* game.
Polled_StartResumes(d, hh, msg) ==
    LET started1 == d.started \/ In(kSTART, msg)
        paused1 == (d.paused \/ In(kPAUSE, msg)) /\ ~In(kSTART, msg)
        paused2 == IF In(kCONTINUE, msg) /\ paused1 THEN FALSE ELSE paused1
    IN  [started |-> started1, paused |-> paused2,
         ended |-> (d.ended \/ (In(kEND, msg) /\ started1)),
         announce |-> (In(kSTART, msg) /\ ~d.started),
         h |-> IF In(kEND, msg) /\ started1 THEN set_end_game(hh) ELSE hh]

\* The message handling of one loop iteration (lines 205-248): the flags and
\* the handler after it.
Polled(d, hh, msg) ==
    LET started1 == d.started \/ In(kSTART, msg)
        paused1 == d.paused \/ In(kPAUSE, msg)
        paused2 == IF In(kCONTINUE, msg) /\ paused1 THEN FALSE ELSE paused1
    IN  [started |-> started1, paused |-> paused2,
         ended |-> (d.ended \/ (In(kEND, msg) /\ started1)),
         announce |-> (In(kSTART, msg) /\ ~d.started),
         h |-> IF In(kEND, msg) /\ started1 THEN set_end_game(hh) ELSE hh]

\* Did this outcome of iterate_once start a story: a STORY line opened the
\* story script.
StartedStory(o) ==
    /\ o.exc = "-" /\ ~o.eof
    /\ o.h.doing_story /\ o.h.story_parser.loaded /\ o.h.story_parser.pos = 0

\* A variant of the driver loop that polls the queue and steps while a
\* wait_for_response call has not returned.
Tick_PollsDuringWait ==
    /\ drv.status = "running"
    /\ LET got == IF queue = <<>>
                  THEN [started |-> drv.started, paused |-> drv.paused,
                        ended |-> drv.ended, announce |-> FALSE, h |-> h]
                  ELSE Polled(drv, h, Head(queue))
           stepping == got.started /\ ~got.paused
       IN  /\ queue' = IF queue = <<>> THEN queue ELSE Tail(queue)
           /\ IF stepping
              THEN \E o \in iterate_once(got.h, elapsed) :
                    /\ h' = o.h
                    /\ out' = o.out
                    /\ last' = [src |-> o.src, eof |-> o.eof, exc |-> o.exc,
                                before |-> IF last.eof /\ last.exc = "-"
                                           THEN last.src ELSE "none",
                                line |-> o.line,
                                gate |-> IF IsLoadStory(o.line)
                                         THEN BudgetGate(got.h, elapsed)
                                         ELSE "-"]
                    /\ starts' = IF StartedStory(o) THEN starts + 1 ELSE starts
                    /\ drv' = [started |-> got.started, paused |-> got.paused,
                               ended |-> got.ended,
                               status |-> IF o.exc = "-" THEN "running"
                                          ELSE IF o.exc = "StopIteration"
                                          THEN "ended" ELSE "crashed"]
                    /\ game' = [start |-> IF got.announce THEN game.start + 1
                                          ELSE game.start,
                                end |-> IF o.exc = "StopIteration"
                                        THEN game.end + 1 ELSE game.end]
              ELSE /\ h' = got.h
                   /\ drv' = [drv EXCEPT !.started = got.started,
                                         !.paused = got.paused,
                                         !.ended = got.ended]
                   /\ game' = [game EXCEPT !.start =
                                 IF got.announce THEN @ + 1 ELSE @]
                   /\ UNCHANGED <<out, last, starts>>
    /\ w' = NoWait
    /\ UNCHANGED <<cwd, elapsed>>
\* One iteration of the driver loop (lines 203-275).
Tick ==
    /\ drv.status = "running"
    /\ ~w.active
    /\ LET got == IF queue = <<>>
                  THEN [started |-> drv.started, paused |-> drv.paused,
                        ended |-> drv.ended, announce |-> FALSE, h |-> h]
                  ELSE Polled(drv, h, Head(queue))
           stepping == got.started /\ ~got.paused
       IN  /\ queue' = IF queue = <<>> THEN queue ELSE Tail(queue)
           /\ IF stepping
              THEN \E o \in iterate_once(got.h, elapsed) :
                    /\ h' = o.h
                    /\ out' = o.out
                    /\ last' = [src |-> o.src, eof |-> o.eof, exc |-> o.exc,
                                before |-> IF last.eof /\ last.exc = "-"
                                           THEN last.src ELSE "none",
                                line |-> o.line,
                                gate |-> IF IsLoadStory(o.line)
                                         THEN BudgetGate(got.h, elapsed)
                                         ELSE "-"]
                    /\ starts' = IF StartedStory(o) THEN starts + 1 ELSE starts
                    /\ drv' = [started |-> got.started, paused |-> got.paused,
                               ended |-> got.ended,
                               status |-> IF o.exc = "-" THEN "running"
                                          ELSE IF o.exc = "StopIteration"
                                          THEN "ended" ELSE "crashed"]
                    /\ game' = [start |-> IF got.announce THEN game.start + 1
                                          ELSE game.start,
                                end |-> IF o.exc = "StopIteration"
                                        THEN game.end + 1 ELSE game.end]
              ELSE /\ h' = got.h
                   /\ drv' = [drv EXCEPT !.started = got.started,
                                         !.paused = got.paused,
                                         !.ended = got.ended]
                   /\ game' = [game EXCEPT !.start =
                                 IF got.announce THEN @ + 1 ELSE @]
                   /\ UNCHANGED <<out, last, starts>>
    /\ w' = NoWait
    /\ UNCHANGED <<cwd, elapsed>>

Next ==
    \/ \E msg \in Messages : Enqueue(msg)
    \/ Clock
    \/ Tick

Spec == Init /\ [][Next]_vars

\* ------------------------------------------- the handler, from any state
\* The handler's methods are also exercised from handler states drawn from
\* the values its attributes can hold: iterate_once in SpecStep, and
\* wait_for_response in SpecWait.

Opened(f, k) ==
    [loaded |-> TRUE, name |-> <<"A", "/">> \o f, pos |-> k, closed |-> FALSE]

PoolConfigs ==
    {[n \in PoolNames |-> NoPool],
     [n \in PoolNames |-> PoolOf(<<1, 2>>)],
     [n \in PoolNames |-> IF n = "max_stories_reached" THEN PoolOf(<<1>>)
                          ELSE IF n = "answer_feedback" THEN NoPool
                          ELSE PoolOf(<<1, 2>>)]}

StoryContexts ==
    {[on |-> FALSE, p |-> NewParser],
     [on |-> TRUE, p |-> Opened(fStoryA, 1)]}
    \cup {[on |-> TRUE, p |-> Opened(fStoryB, k)] : k \in 0..Len(SubScripts[fStoryB])}

RepeatContexts ==
    {[on |-> FALSE, p |-> NewParser, reps |-> Unset, max |-> Unset]}
    \cup {[on |-> TRUE, p |-> pp, reps |-> IntV(0), max |-> m] :
            pp \in {Opened(fRepStory, 0), Opened(fRepOnlyStory, 0),
                    Opened(fRepStory, Len(SubScripts[fRepStory])),
                    Opened(fRepRobot, Len(SubScripts[fRepRobot])),
                    Opened(fRepNested, 0), Opened(fRepNested, 1)},
            m \in {Unset, IntV(2), StrV(kMAX_STORIES)}}

Budgets ==
    {[told |-> n, max |-> m, time |-> g] :
        n \in 0..(MaxStoriesTold - 1),
        m \in {Unset, StrV(tTwo), IntV(1)},
        g \in {Unset, TdV(MaxElapsed)}}

HandlerWith(sc, rc, b, script, pools, attempts, mainpos) ==
    [NewHandler([loaded |-> TRUE, name |-> <<"A">> \o fGeneral,
                 pos |-> mainpos, closed |-> FALSE]) EXCEPT
        !.doing_story = sc.on, !.story_parser = sc.p,
        !.repeating = rc.on, !.repeat_parser = rc.p,
        !.repetitions = rc.reps, !.max_repetitions = rc.max,
        !.stories_told = b.told, !.max_stories = b.max,
        !.max_game_time = b.time,
        !.story_script = script, !.pools = pools,
        !.max_incorrect_responses = attempts]

Running ==
    /\ cwd = "A"
    /\ drv = [started |-> TRUE, paused |-> FALSE, ended |-> FALSE,
              status |-> "running"]
    /\ elapsed = 0
    /\ queue = <<>>
    /\ game = [start |-> 1, end |-> 0]
    /\ out = <<>>
    /\ w = NoWait
    /\ last = NoStep
    /\ starts = 0

InitStep ==
    /\ \E sc \in StoryContexts, rc \in RepeatContexts, b \in Budgets,
          script \in {Unset, StrV(fStoryB), StrV(fMissing)},
          pools \in PoolConfigs,
          mainpos \in 3..Len(MainScripts[<<"A">> \o fGeneral]) :
            h = HandlerWith(sc, rc, b, script, pools, Unset, mainpos)
    /\ Running

NextStep == Clock \/ Tick

SpecStep == InitStep /\ [][NextStep]_vars

\* wait_for_response is entered (line 327).
WaitCall(response_to_get) ==
    /\ drv.status = "running"
    /\ drv.started /\ ~drv.paused
    /\ ~w.active
    /\ LET r == AttemptRange(h) IN
       /\ w' = [active |-> r.exc = "-", kind |-> response_to_get, i |-> 0,
                n |-> r.n, calls |-> 0,
                result |-> IF r.exc = "-" THEN "-" ELSE "raised",
                resp |-> <<>>,
                ctx0 |-> [doing_story |-> h.doing_story,
                          repeating |-> h.repeating]]
       /\ drv' = [drv EXCEPT !.status =
                    IF r.exc = "-" THEN "running" ELSE "crashed"]
    /\ out' = <<>>
    /\ UNCHANGED <<cwd, h, elapsed, queue, game, last, starts>>

\* One attempt: ros_node.wait_for_response returns, the robot responds.
WaitAttempt(response) ==
    /\ w.active
    /\ w.i < w.n
    /\ \E o \in WaitBody(h, out, response, w.kind) :
        /\ h' = o.h
        /\ out' = o.out
        /\ w' = [w EXCEPT !.calls = w.calls + 1,
                          !.resp = Append(w.resp, response),
                          !.i = IF o.exc = "-" /\ ~o.brk THEN w.i + 1 ELSE w.i,
                          !.active = (o.exc = "-" /\ ~o.brk),
                          !.result = IF o.exc # "-" THEN "raised"
                                     ELSE IF o.brk THEN "success" ELSE "-"]
        /\ drv' = [drv EXCEPT !.status =
                     IF o.exc = "-" THEN "running" ELSE "crashed"]
    /\ UNCHANGED <<cwd, elapsed, queue, game, last, starts>>

\* The loop ran out of attempts: its else branch, and the call returns.
WaitExhausted ==
    /\ w.active
    /\ w.i >= w.n
    /\ \E o \in WaitElse(h, out, w.kind) :
        /\ h' = o.h
        /\ out' = o.out
        /\ w' = [w EXCEPT !.active = FALSE,
                          !.result = IF o.exc = "-" THEN "exhausted"
                                     ELSE "raised"]
        /\ drv' = [drv EXCEPT !.status =
                     IF o.exc = "-" THEN "running" ELSE "crashed"]
    /\ UNCHANGED <<cwd, elapsed, queue, game, last, starts>>

InitWait ==
    /\ \E sc \in StoryContexts, rc \in RepeatContexts, pools \in PoolConfigs,
          attempts \in {Unset, StrV(tTwo)} \cup {IntV(k) : k \in 0..MaxAttempts} :
            /\ h = HandlerWith(sc, rc, [told |-> 0, max |-> Unset, time |-> Unset],
                               Unset, pools, attempts, Len(MainScripts[<<"A">> \o fGeneral]) - 3)
    /\ Running

NextWait ==
    \/ \E k \in WaitKinds : WaitCall(k)
    \/ \E r \in Responses : WaitAttempt(r)
    \/ WaitExhausted
    \/ Tick

SpecWait == InitWait /\ [][NextWait]_vars

\* wait_for_response while the event producer fills the queue.
InitWaitQ ==
    /\ \E sc \in StoryContexts, pools \in PoolConfigs,
          attempts \in {IntV(k) : k \in 1..MaxAttempts} :
            h = HandlerWith(sc, [on |-> FALSE, p |-> NewParser, reps |-> Unset,
                                 max |-> Unset],
                            [told |-> 0, max |-> Unset, time |-> Unset],
                            Unset, pools, attempts,
                            Len(MainScripts[<<"A">> \o fGeneral]) - 3)
    /\ Running

NextWaitQ ==
    \/ \E msg \in Messages : Enqueue(msg)
    \/ \E k \in WaitKinds : WaitCall(k)
    \/ \E r \in Responses : WaitAttempt(r)
    \/ WaitExhausted
    \/ Tick

SpecWaitQ == InitWaitQ /\ [][NextWaitQ]_vars

\* ------------------------------------------------------------- properties
AtEof(p) == p.loaded /\ ~p.closed /\ p.pos = Len(Disk(p.name))

Count(cmds, cmd) == Cardinality({k \in 1..Len(cmds) : cmds[k].cmd = cmd})
CountSaid(cmds, pool) ==
    Cardinality({k \in 1..Len(cmds) : cmds[k].cmd = "DO" /\ cmds[k].arg = pool})

\* The session budget is used up: stories_told >= max_stories or the elapsed
\* time >= max_game_time.
BudgetReached ==
    \/ h.max_stories.tag # "unset" /\ GeqPy2(IntV(h.stories_told), h.max_stories)
    \/ h.max_game_time.tag = "td" /\ elapsed >= h.max_game_time.n

\* C1: once a session has been started, the stepping only ever stops because
\* the MAIN script was exhausted: no step leaves the driver loop in any other
\* way.
C1_SteppingStopsOnlyAtMainEnd ==
    (drv.started /\ drv.status # "running")
        => (drv.status = "ended" /\ last.src = "main" /\ last.eof)

\* C2: the REPEAT context over the script holding only a STORY line, entered
\* by `REPEAT 2 <script>`, is left (or the stepping stops) only after story
\* playback was started exactly 2 times, or with the budget used up.
C2_RepeatStartsStoryNTimes ==
    (/\ h.repeat_parser.loaded
     /\ h.repeat_parser.name = SubPath(fRepOnlyStory)
     /\ cwd = "D"
     /\ (~h.repeating \/ drv.status # "running"))
        => (starts = 2 \/ BudgetReached)

\* C3: a step that exhausts the REPEAT source while, after the increment,
\* repetitions_done < max_repetitions and elapsed < max_game_time leaves the
\* repeat script open at its beginning, the REPEAT context active and the
\* session running.
C3_RepeatReopened ==
    [][(/\ Tick
        /\ Source(h) = "repeat" /\ AtEof(h.repeat_parser)
        /\ h.repetitions.tag = "int" /\ h.max_repetitions.tag = "int"
        /\ h.repetitions.n + 1 < h.max_repetitions.n
        /\ h.max_game_time.tag = "td" /\ elapsed < h.max_game_time.n)
          => (/\ drv'.status = "running"
              /\ h'.repeating
              /\ h'.repeat_parser = [h.repeat_parser EXCEPT !.pos = 0])]_vars

\* C4: a step that exhausts the REPEAT source increments repetitions_done by
\* exactly 1 and pops the REPEAT context if and only if, after the increment,
\* repetitions_done >= max_repetitions or elapsed >= max_game_time.
C4_RepeatExhaustionCounts ==
    [][(/\ Tick
        /\ Source(h) = "repeat" /\ AtEof(h.repeat_parser)
        /\ h.repetitions.tag = "int" /\ h.max_repetitions.tag = "int"
        /\ h.max_game_time.tag = "td")
          => (/\ h'.repetitions = IntV(h.repetitions.n + 1)
              /\ ~h'.repeating <=> (\/ h.repetitions.n + 1 >= h.max_repetitions.n
                                    \/ elapsed >= h.max_game_time.n))]_vars

\* C5: a step that exhausts the STORY source pops the STORY context, adds
\* exactly 1 to stories_told, leaves the REPEAT context (flag, cursor,
\* repetition count and bound) and the MAIN cursor as they were and returns
\* normally; the step after it reads from REPEAT if a REPEAT context is
\* active, otherwise from MAIN.
C5_StoryExhaustionPops ==
    [][/\ (Tick /\ Source(h) = "story" /\ AtEof(h.story_parser))
          => (/\ ~h'.doing_story
              /\ h'.stories_told = h.stories_told + 1
              /\ h'.repeating = h.repeating
              /\ h'.repeat_parser = h.repeat_parser
              /\ h'.repetitions = h.repetitions
              /\ h'.max_repetitions = h.max_repetitions
              /\ h'.script_parser = h.script_parser
              /\ drv'.status = "running"
              /\ last'.src = "story" /\ last'.eof /\ last'.exc = "-")
       /\ (Tick /\ last.src = "story" /\ last.eof /\ last.exc = "-")
          => last'.src = IF h.repeating THEN "repeat" ELSE "main"]_vars

\* A story ended inside a REPEAT context and the step after it read the
\* repeat script.
C5_Witness ==
    /\ last.before = "story"
    /\ last.src = "repeat"
    /\ h.repeating
    /\ h.stories_told > 0

Received == {w.resp[k] : k \in 1..Len(w.resp)}

\* C7: a wait(CORRECT, t) that has returned after responses none of which
\* was CORRECT (each INCORRECT or TIMEOUT) has sent SHOW_CORRECT exactly once
\* and has left the STORY and REPEAT contexts as they were.
C7_NeverCorrectShowsAnswerOnce ==
    (/\ w.result \in {"success", "exhausted"}
     /\ w.kind = kCORRECT
     /\ w.n > 0
     /\ Received \subseteq {kINCORRECT, kTIMEOUT})
        => (/\ Count(out, "SHOW_CORRECT") = 1
            /\ h.doing_story = w.ctx0.doing_story
            /\ h.repeating = w.ctx0.repeating)

\* C8: the step after a wait(YES_NO, t) that used up its attempts without a
\* YES reads its line from the MAIN script.
C8_YesNoExhaustedReadsMain ==
    [][(Tick /\ w.result = "exhausted" /\ w.kind = kYES_NO /\ w.n > 0
             /\ Received \subseteq {kNO, kTIMEOUT})
          => last'.src = "main"]_vars

\* C9: an attempt answered INCORRECT (or TIMEOUT while kind = CORRECT), with
\* the response pools loaded, sends one incorrect-response command and
\* nothing else, and the loop goes on to the next attempt.
C9_IncorrectContinues ==
    [][(/\ w.active /\ w'.calls = w.calls + 1
        /\ \A n \in PoolNames : Len(h.pools[n].items) > 0
        /\ \/ w'.resp[Len(w'.resp)] = kINCORRECT
           \/ w'.resp[Len(w'.resp)] = kTIMEOUT /\ w.kind = kCORRECT)
          => (/\ w'.active /\ w'.i = w.i + 1
              /\ Len(out') = Len(out) + 1
              /\ CountSaid(out', "incorrect_responses")
                    = CountSaid(out, "incorrect_responses") + 1)]_vars

\* C10: the wait never makes more than max_incorrect_responses calls to the
\* external wait, and a wait that is over after only NO responses (or
\* TIMEOUT while kind = YES_NO) made exactly max_incorrect_responses
\* attempts, sent one no-response command per attempt and took the
\* exhaustion branch.
C10_AllNoUsesEveryAttempt ==
    /\ w.calls <= w.n
    /\ (/\ ~w.active /\ w.result # "-" /\ w.n > 0
        /\ \/ Received \subseteq {kNO}
           \/ Received \subseteq {kNO, kTIMEOUT} /\ w.kind = kYES_NO)
          => (/\ w.result # "success"
              /\ w.calls = w.n
              /\ CountSaid(out, "no_responses") = w.n)

\* C11: an OPAL LOAD_STORY executed with the budget used up pushes no STORY
\* context and leaves stories_told as it was, and the step after it, also
\* when it reads a STORY line, starts no story.
C11_AbortedLoadStartsNoStory ==
    [][/\ (Tick /\ last'.gate = "T")
          => (~h'.doing_story /\ h'.stories_told = h.stories_told)
       /\ (Tick /\ last.gate = "T") => starts' = starts]_vars

\* C12: after an OPAL LOAD_STORY stopped by the budget, with the
\* max_stories_reached pool loaded, exactly one max-stories-reached response
\* was sent, no REPEAT context is left, and neither a scene setup nor an
\* object load was sent.
C12_AbortedLoadSaysSo ==
    (/\ last.gate = "T"
     /\ h.pools["max_stories_reached"].set
     /\ Len(h.pools["max_stories_reached"].items) > 0)
    => (/\ CountSaid(out, "max_stories_reached") = 1
        /\ ~h.repeating
        /\ Count(out, "SETUP_STORY_SCENE") = 0
        /\ Count(out, "LOAD_OBJECT") = 0)

\* A parser with a line left to read.
HasLine(p) == p.loaded /\ ~p.closed /\ p.pos < Len(Disk(p.name))

C14_EndResumesMain ==
    [][Tick =>
        /\ (queue # <<>> /\ In(kEND, Head(queue)) /\ ~drv'.started)
           => (h' = h /\ drv' = drv /\ game' = game /\ out' = out)
        /\ (drv'.ended /\ ~drv'.paused /\ last'.exc = "-")
           => (/\ last'.src = "main"
               /\ ~h'.doing_story /\ ~h'.repeating)]_vars

\* The line reaches the REPEAT branch (lines 111, 137, 159, 186, 224, 239,
\* 245).
IsRepeat(e) ==
    /\ Len(e) >= 3
    /\ ~In(kROBOT, e[1]) /\ ~In(kOPAL, e[1]) /\ ~In(kADD, e[1])
    /\ ~In(kSET, e[1]) /\ ~In(kWAIT, e[1])
    /\ In(kREPEAT, e[1])

\* The line reaches the STORY branch (lines 111-114).
IsStory(e) == Len(e) = 1 /\ In(kSTORY, e[1])

\* The step pulled the next line of parser p, whose cursor moved by one; q is
\* that parser after the step, or the unread parser a STORY or REPEAT line
\* read from p put in its place.
Pulled(p, q) ==
    /\ last'.line = Disk(p.name)[p.pos + 1]
    /\ \/ q.name = p.name /\ q.pos = p.pos + 1
       \/ (IsStory(last'.line) \/ IsRepeat(last'.line)) /\ q.pos = 0

\* The step did not advance the cursor of p, now q: it is as it was, or it
\* was replaced by a parser that has read nothing.
NotAdvanced(p, q) == q = p \/ q.pos = 0

\* C15: every step reads from the story script when a STORY context is
\* active, else from the repeat script when a REPEAT context is active, else
\* from the main script, and the cursors of the other two do not advance.
C15_InnermostContextRead ==
    [][(Tick /\ drv'.started /\ ~drv'.paused) =>
        /\ (h.doing_story /\ HasLine(h.story_parser))
           => (/\ Pulled(h.story_parser, h'.story_parser)
               /\ NotAdvanced(h.repeat_parser, h'.repeat_parser)
               /\ NotAdvanced(h.script_parser, h'.script_parser))
        /\ (~h.doing_story /\ h.repeating /\ HasLine(h.repeat_parser))
           => (/\ Pulled(h.repeat_parser, h'.repeat_parser)
               /\ NotAdvanced(h.story_parser, h'.story_parser)
               /\ NotAdvanced(h.script_parser, h'.script_parser))
        /\ (~h.doing_story /\ ~h.repeating /\ HasLine(h.script_parser))
           => (/\ Pulled(h.script_parser, h'.script_parser)
               /\ NotAdvanced(h.story_parser, h'.story_parser)
               /\ NotAdvanced(h.repeat_parser, h'.repeat_parser))]_vars

\* A step read a line of the story script while a REPEAT context with lines
\* left was active beneath it.
C15_Witness ==
    /\ last.src = "story" /\ last.line # <<>> /\ last.exc = "-"
    /\ h.doing_story /\ h.story_parser.pos > 0
    /\ h.repeating /\ HasLine(h.repeat_parser)
    /\ HasLine(h.script_parser)

\* C16: the MAIN script stays the one the session opened, its cursor never
\* moves back, and it is closed only by the step that ends the session; a
\* REPEAT line read from the repeat script replaces the REPEAT context (the
\* script it names, read from its start, with no repetition counted) instead
\* of adding a level: nothing of the repetition it was read from is kept.
C16_OneContextOfEachKind ==
    [][Tick =>
        /\ h'.script_parser.loaded
        /\ h'.script_parser.name = h.script_parser.name
        /\ h'.script_parser.pos >= h.script_parser.pos
        /\ h'.script_parser.closed
           => (last'.src = "main" /\ last'.eof /\ drv'.status = "ended")
        /\ (/\ drv'.started /\ ~drv'.paused
            /\ ~h.doing_story /\ h.repeating /\ HasLine(h.repeat_parser)
            /\ IsRepeat(last'.line)
            /\ Exists(SubPath(last'.line[3])))
           => (/\ h'.repeating
               /\ h'.repeat_parser = load_script(NewParser,
                                                 SubPath(last'.line[3])).p
               /\ h'.repetitions = IntV(0)
               /\ ~h'.doing_story
               /\ h'.script_parser = h.script_parser)]_vars

\* A REPEAT line was read from a repeat script and its script opened.
C16_Witness ==
    /\ last.src = "repeat" /\ IsRepeat(last.line) /\ last.exc = "-"
    /\ h.repeating /\ h.repeat_parser.loaded
    /\ h.repeat_parser.name = SubPath(fRepRobot)
    /\ h.repeat_parser.pos = 0

\* C17: a STORY line whose story script cannot be opened or was never
\* selected, and a REPEAT line whose script cannot be opened, are skipped:
\* the step returns normally, stories_told is unchanged, no STORY context is
\* active and the next step reads the context the line came from.  A session
\* whose MAIN script could not be opened never steps.
C17_SubScriptFailureSkipsLine ==
    [][/\ drv'.status = "noscript" => (last' = NoStep /\ game'.start = 0)
       /\ (Tick /\ drv'.started /\ ~drv'.paused /\ last'.line # <<>>)
          => LET e == last'.line
                 skipped == /\ last'.exc = "-"
                            /\ ~h'.doing_story
                            /\ h'.stories_told = h.stories_told
                            /\ Source(h') = last'.src
             IN  /\ (/\ IsStory(e)
                     /\ \/ h.story_script.tag = "unset"
                        \/ ~Exists(SubPath(h.story_script.s)))
                    => skipped
                 /\ (IsRepeat(e) /\ ~Exists(SubPath(e[3]))) => skipped]_vars

\* C18: a wait_for_response call that finds a response pool never loaded
\* does not fail: it goes on to its next attempt or returns, whatever the
\* responses were.
C18_MissingPoolIsSilent ==
    (/\ w.n > 0
     /\ \E n \in {"correct_responses", "incorrect_responses", "yes_responses",
                  "no_responses", "answer_feedback"} : ~h.pools[n].set)
    => (w.result # "raised" /\ drv.status # "crashed")

\* A line the claim C19 calls malformed: no field, one field that is not
\* STORY, a first field that names no opcode, or an ADD, SET, WAIT or REPEAT
\* line with fewer than three fields.
Malformed(e) ==
    \/ Len(e) < 1
    \/ Len(e) = 1 /\ ~In(kSTORY, e[1])
    \/ /\ Len(e) >= 2
       /\ ~In(kROBOT, e[1]) /\ ~In(kOPAL, e[1])
       /\ \/ Len(e) = 2
          \/ /\ ~In(kADD, e[1]) /\ ~In(kSET, e[1])
             /\ ~In(kWAIT, e[1]) /\ ~In(kREPEAT, e[1])

IsAdd(e) ==
    /\ Len(e) >= 3
    /\ ~In(kROBOT, e[1]) /\ ~In(kOPAL, e[1])
    /\ In(kADD, e[1])

\* The pool a pool name of an ADD line stands for.
NamedPool(f) ==
    CASE f = kCORRECT_RESPONSES -> "correct_responses"
      [] f = kINCORRECT_RESPONSES -> "incorrect_responses"
      [] f = kYES_RESPONSES -> "yes_responses"
      [] f = kNO_RESPONSES -> "no_responses"
      [] f = kANSWER_FEEDBACK -> "answer_feedback"
      [] f = kSTORY_INTROS -> "story_intros"
      [] f = kSTORY_CLOSINGS -> "story_closings"
      [] f = kTIMEOUT_CLOSINGS -> "timeout_closings"
      [] f = kMAX_STORIES_REACHED -> "max_stories_reached"
      [] OTHER -> "none"

\* C20: a step that reads an ADD line naming one of the nine pools returns
\* normally and leaves every other pool as it was; the named pool is loaded
\* unless the file could not be read, and then it is as it was too.
C20_AddReplacesNamedPool ==
    [][(Tick /\ drv'.started /\ ~drv'.paused /\ IsAdd(last'.line)
             /\ NamedPool(last'.line[2]) # "none")
       => (/\ last'.exc = "-"
           /\ \A m \in PoolNames \ {NamedPool(last'.line[2])} :
                h'.pools[m] = h.pools[m]
           /\ \/ h'.pools[NamedPool(last'.line[2])].set
              \/ h'.pools = h.pools)]_vars

\* The lines of the response file an ADD line names, as fh.readlines() would
\* return them (line 314).
PoolFileLines(f) == IF f = fPool THEN <<1, 2>> ELSE <<>>

\* The indices a response can be picked at from pool n of handler hh.
Selectable(hh, n) == {r.idx : r \in {x \in PickFrom(hh, n, n) : x.exc = "-"}}

\* C21: after a step that reads an ADD line naming a pool and a file of K
\* lines, the pool holds these K lines in file order and a response picked
\* from it can be any of the entries 0..K-1 and no other.
C21_PoolHoldsFileLines ==
    [][(Tick /\ drv'.started /\ ~drv'.paused /\ IsAdd(last'.line)
             /\ NamedPool(last'.line[2]) # "none"
             /\ Len(PoolFileLines(last'.line[3])) > 0)
       => LET n == NamedPool(last'.line[2])
              lines == PoolFileLines(last'.line[3])
          IN  /\ h'.pools[n].items = lines
              /\ Selectable(h', n) = 0..(Len(lines) - 1)]_vars

\* C22: a step that reads a REPEAT line whose script opens returns normally
\* with repetitions reset to 0 and max_repetitions defined: the value of
\* max_stories when the count field says MAX_STORIES, the count field itself
\* otherwise.
C22_RepeatSetsBound ==
    [][(Tick /\ drv'.started /\ ~drv'.paused /\ IsRepeat(last'.line)
             /\ Exists(SubPath(last'.line[3])))
       => (/\ last'.exc = "-"
           /\ h'.repetitions = IntV(0)
           /\ h'.max_repetitions.tag # "unset"
           /\ h'.max_repetitions =
                IF In(kMAX_STORIES, last'.line[2]) THEN h.max_stories
                ELSE StrV(last'.line[2]))]_vars

\* C23: the commands of an OPAL LOAD_STORY that passed the budget test are
\* one scene setup carrying the number of scenes, then one object load per
\* scene: the i-th carries slot i, is draggable exactly when the scenes are
\* not in order, and carries a correct slot exactly then.
C23_SceneLoadsInListOrder ==
    (last.gate = "F" /\ last.exc = "-")
    => (/\ Len(out) >= 1
        /\ out[1].cmd = "SETUP_STORY_SCENE"
        /\ Len(out) = out[1].idx + 1
        /\ \A k \in 2..Len(out) :
            /\ out[k].cmd = "LOAD_OBJECT"
            /\ out[k].idx = k - 1
            /\ out[k].draggable = (out[1].arg = "free")
            /\ (out[k].correctSlot # 0) = (out[1].arg = "free"))

\* C24: while a wait_for_response call has not returned, the driver's flags,
\* the game states announced and the latest step stay as they are, and the
\* queue only grows at its end; the queue ever changes only by a message
\* appended or by the driver taking the oldest one, one per tick.
C24_SignalsWaitForTheStep ==
    [][/\ w.active
          => (/\ drv'.started = drv.started
              /\ drv'.paused = drv.paused
              /\ drv'.ended = drv.ended
              /\ game' = game
              /\ last' = last
              /\ h'.script_parser = h.script_parser
              /\ \/ queue' = queue
                 \/ \E msg \in Messages : queue' = Append(queue, msg))
       /\ queue' # queue
          => \/ \E msg \in Messages : queue' = Append(queue, msg)
             \/ queue # <<>> /\ queue' = Tail(queue) /\ ~w.active]_vars

\* PAUSE and then END arrived while a wait that already got a response is
\* still in progress, and the game is neither paused nor ended.
C24_Witness ==
    /\ w.active /\ w.calls > 0
    /\ Len(queue) >= 2 /\ queue[1] = kPAUSE /\ queue[2] = kEND
    /\ ~drv.paused /\ ~drv.ended

\* C25: a step whose line cannot be carried out without an exception stops
\* the driver loop without END being announced, and once the loop has
\* stopped that way nothing steps the handler, polls the queue or announces
\* anything again.
C25_FailureStopsStepping ==
    [][/\ (Tick /\ drv'.started /\ ~drv'.paused)
          => LET src == last'.src
                 p == ParserOf(h, src)
                 ended == queue # <<>> /\ In(kEND, Head(queue))
                 gh == IF ended THEN set_end_game(h) ELSE h
                 read == WithParser(gh, src, [p EXCEPT !.pos = p.pos + 1])
             IN  (/\ HasLine(p)
                  /\ \A o \in Dispatch(read, <<>>, Disk(p.name)[p.pos + 1],
                                       elapsed) : o.exc # "-")
                 => (drv'.status = "crashed" /\ game'.end = game.end)
       /\ drv.status = "crashed"
          => (/\ h' = h /\ drv' = drv /\ game' = game /\ out' = out
              /\ last' = last /\ starts' = starts
              /\ Len(queue') >= Len(queue))]_vars

\* The loop stopped on a NameError and a message is left in the queue.
C25_Witness ==
    /\ drv.status = "crashed" /\ last.exc = "NameError"
    /\ queue # <<>>
    /\ game.start = 1 /\ game.end = 0

\* The line reaches the WAIT branch (lines 111, 137, 159, 186, 224, 239).
IsWait(e) ==
    /\ Len(e) >= 3
    /\ ~In(kROBOT, e[1]) /\ ~In(kOPAL, e[1]) /\ ~In(kADD, e[1])
    /\ ~In(kSET, e[1])
    /\ In(kWAIT, e[1])

\* C26: a step that reads a WAIT line of three fields carries out the wait
\* and returns normally: the driver goes on stepping.
C26_WaitLineReturns ==
    [][(Tick /\ drv'.started /\ ~drv'.paused /\ IsWait(last'.line))
       => (last'.exc = "-" /\ drv'.status = "running")]_vars

IsSet(e) ==
    /\ Len(e) >= 3
    /\ ~In(kROBOT, e[1]) /\ ~In(kOPAL, e[1]) /\ ~In(kADD, e[1])
    /\ In(kSET, e[1])

\* The scalar v holds the value written in field f.
Holds(v, f) ==
    \/ v.tag = "str" /\ v.s = f
    \/ v.tag \in {"int", "td"} /\ f = tTwo /\ v.n = 2

\* C28: a step that reads a SET line returns normally, sends nothing and
\* leaves pools, contexts and stories_told alone; the scalar its key names
\* then holds the line's value and the two other scalars are as before; an
\* unknown key leaves all three as before.
C28_SetChangesOneScalar ==
    [][(Tick /\ drv'.started /\ ~drv'.paused /\ IsSet(last'.line))
       => LET key == last'.line[2]
              val == last'.line[3]
          IN  /\ last'.exc = "-" /\ out' = <<>>
              /\ h'.pools = h.pools
              /\ h'.stories_told = h.stories_told
              /\ Source(h') = last'.src
              /\ IF key = kMAX_INCORRECT_RESPONSES
                 THEN Holds(h'.max_incorrect_responses, val)
                 ELSE h'.max_incorrect_responses = h.max_incorrect_responses
              /\ IF key = kMAX_GAME_TIME
                 THEN Holds(h'.max_game_time, val)
                 ELSE h'.max_game_time = h.max_game_time
              /\ IF key = kMAX_STORIES
                 THEN Holds(h'.max_stories, val)
                 ELSE h'.max_stories = h.max_stories]_vars

\* C29: stories_told is 0 in a new handler and never decreases; it changes
\* only in the step that finds the story script at its end, and that step
\* adds exactly 1.
C29_StoriesToldCountsStoryEnds ==
    [][/\ NewHandler(NewParser).stories_told = 0
       /\ h'.stories_told >= h.stories_told
       /\ h'.stories_told # h.stories_told
          => (/\ Tick
              /\ h.doing_story /\ AtEof(h.story_parser)
              /\ last'.src = "story" /\ last'.eof
              /\ h'.stories_told = h.stories_told + 1)
       /\ (Tick /\ drv'.started /\ ~drv'.paused /\ ~drv'.ended
                /\ h.doing_story /\ AtEof(h.story_parser))
          => h'.stories_told = h.stories_told + 1]_vars

\* A story script was read to its end and counted: stories_told is above
\* every value a run starts with.
C29_Witness ==
    /\ last.src = "story" /\ last.eof /\ last.exc = "-"
    /\ h.stories_told > MaxStoriesTold - 1
    /\ ~h.doing_story

\* The number a configuration scalar stands for.
NumOf(v) == IF v.tag = "str" THEN (IF v.s = tTwo THEN 2 ELSE 0) ELSE v.n

\* C30: a story started by a STORY line that directly follows its OPAL
\* LOAD_STORY line starts while stories_told is below max_stories, so that
\* counting it keeps stories_told <= max_stories.
C30_StoriesWithinBudget ==
    [][(/\ Tick
        /\ last.gate = "F" /\ last.exc = "-"
        /\ IsStory(last'.line) /\ last'.exc = "-" /\ h'.doing_story
        /\ h.max_stories.tag # "unset")
       => h.stories_told < NumOf(h.max_stories)]_vars

\* C31: when a wait_for_response call is over, by return or by exception,
\* every SHOW_CORRECT it sent has been followed by a HIDE_CORRECT.
C31_ShownAnswerIsHidden ==
    (~w.active /\ w.result \in {"success", "exhausted", "raised"})
    => (/\ Count(out, "SHOW_CORRECT") = Count(out, "HIDE_CORRECT")
        /\ \A k \in 1..Len(out) :
            out[k].cmd = "SHOW_CORRECT"
            => \E j \in (k + 1)..Len(out) : out[j].cmd = "HIDE_CORRECT")

\* C32: an attempt answered with CORRECT or YES that raises nothing ends
\* the wait at once: one robot response was sent for it, from the correct or
\* the yes pool, and nothing else; neither SHOW_CORRECT nor HIDE_CORRECT was
\* sent during the wait; the STORY and REPEAT flags are as the wait found
\* them; and no further response is waited for.
C32_SuccessReturnsAtOnce ==
    [][/\ (/\ w.active /\ w'.calls = w.calls + 1
           /\ drv'.status = "running"
           /\ LET r == w'.resp[Len(w'.resp)] IN
              In(kCORRECT, r) \/ In(kYES, r))
          => (/\ ~w'.active /\ w'.result = "success"
              /\ Len(out') = Len(out) + 1
              /\ out'[Len(out')].cmd = "DO"
              /\ out'[Len(out')].arg \in {"correct_responses", "yes_responses"}
              /\ Count(out', "SHOW_CORRECT") = 0
              /\ Count(out', "HIDE_CORRECT") = 0
              /\ h'.doing_story = w.ctx0.doing_story
              /\ h'.repeating = w.ctx0.repeating
              /\ h' = h)
       /\ w.result = "success" => (w' = w \/ w' = NoWait \/ w'.calls = 0)]_vars

\* A wait ended on YES at its second attempt, inside a story, after a NO.
C32_Witness ==
    /\ ~w.active /\ w.result = "success"
    /\ w.calls = 2 /\ w.n >= 2
    /\ w.resp = <<kNO, kYES>>
    /\ h.doing_story
    /\ CountSaid(out, "yes_responses") = 1

====
